---- MODULE Spec2Model ----
(***************************************************************************)
(* Model of advanced-vector/vector.h: RawMemory<T> (a block of             *)
(* uninitialised storage) and Vector<T> (element lifetimes, growth and     *)
(* positional mutation on top of a RawMemory).                             *)
(*                                                                         *)
(* Memory is modelled slot by slot.  A slot holds Raw (no object lives     *)
(* there), MovedFrom (a live object that has been moved from), or a value  *)
(* (DefaultValue for a value-initialised T).  Each member function is one  *)
(* action; it leaves in `call` the record of the call (arguments, injected *)
(* failure, exception, returned position, the steps it took in order, the  *)
(* state it started from), and Return hands control back to the caller.    *)
(* An operation that performs undefined behaviour records it in ub; the    *)
(* model follows the program up to the first call that performs undefined  *)
(* behaviour or leaves a vector's representation broken, and no further.   *)
(***************************************************************************)
EXTENDS Integers, Sequences, FiniteSets, TLC

\* ------------------------------------------------------------ bounds
\* the largest size or capacity a caller asks for
MaxCap == 4
\* the element values are 0..MaxVal
MaxVal == 1
\* the free store of a program with one vector holds this many slots of T
HeapSlots == 7
\* the largest size or capacity asked for in a program with two vectors
PairCap == 2
\* the free store of a program with two vectors holds this many slots of T
PairSlots == 5

\* ------------------------------------------------------------ slot contents
Raw == -3
Indet == -2
MovedFrom == -1
DefaultValue == 0

Values == 0..MaxVal
Vecs == {"a", "b"}
\* one block for each vector and one more while a vector reallocates
Addrs == 1..(Cardinality(Vecs) + 1)
Raws == {"r", "s"}

\* heap: the free store, by address; slots: how many slots of T it holds in
\* all (a request beyond what is free fails with std::bad_alloc);
\* vec, raw: the caller's Vector and RawMemory objects; ub: the undefined
\* behaviour performed so far; call: the call that has just completed;
\* nothrowMove: std::is_nothrow_move_constructible_v<T>
VARIABLES heap, slots, vec, raw, ub, call, nothrowMove

vars == <<heap, slots, vec, raw, ub, call, nothrowMove>>

\* ------------------------------------------------------------ the free store
FreeBlock == [used |-> FALSE, slot |-> <<>>]

NullMemory == [buffer |-> 0, capacity |-> 0]

Mem(h, u, l) == [heap |-> h, ub |-> u, lost |-> l, log |-> <<>>]

\* the steps a call takes, in the order it takes them
Log(m, e) == [m EXCEPT !.log = Append(@, e)]

Flag(m, e) == [m EXCEPT !.ub = @ \cup {e}]

Lose(m, e) == [m EXCEPT !.lost = @ \cup {e}]

InBlock(m, p, i) == p \in Addrs /\ m.heap[p].used /\ i \in DOMAIN m.heap[p].slot

SlotOf(m, p, i) == IF InBlock(m, p, i) THEN m.heap[p].slot[i] ELSE Raw

Put(m, p, i, val) == [m EXCEPT !.heap[p].slot[i] = val]

\* operator new: the lowest free address; the block's slots hold no object
FreeAddrs(m) == {q \in Addrs : ~m.heap[q].used}

Allocate(m, n) ==
    IF n = 0 THEN [m |-> m, p |-> 0]
    ELSE LET q == CHOOSE x \in FreeAddrs(m) : \A y \in FreeAddrs(m) : x <= y
         IN [m |-> Log([m EXCEPT !.heap[q] = [used |-> TRUE,
                                              slot |-> [i \in 0..(n - 1) |-> Raw]]],
                       <<"allocate", q>>),
             p |-> q]

\* operator delete: releasing null does nothing; releasing a block twice is
\* undefined; an object still living in the block is lost with it
Deallocate(m, p) ==
    IF p = 0 THEN m
    ELSE IF ~m.heap[p].used THEN Log(Flag(m, "double_free"), <<"release", p>>)
    ELSE LET m1 == IF \E i \in DOMAIN m.heap[p].slot : m.heap[p].slot[i] # Raw
                   THEN Lose(m, "object_in_released_block") ELSE m
         IN Log([m1 EXCEPT !.heap[p] = FreeBlock], <<"release", p>>)

\* ------------------------------------------------------------ one element
\* placement new at slot i of block p
ConstructAt(m, p, i, val) ==
    LET m0 == Log(m, <<"construct", p, i>>)
    IN IF ~InBlock(m, p, i) THEN Flag(m0, "out_of_block")
       ELSE Put(IF SlotOf(m, p, i) # Raw THEN Lose(m0, "object_overwritten") ELSE m0,
                p, i, val)

\* the destructor of the object at slot i
DestroyAt(m, p, i) ==
    LET m0 == Log(m, <<"destroy", p, i>>)
    IN IF ~InBlock(m, p, i) THEN Flag(m0, "out_of_block")
       ELSE IF SlotOf(m, p, i) = Raw THEN Flag(m0, "no_object")
       ELSE Put(m0, p, i, Raw)

\* reading a slot as a T: where no object lives the value is indeterminate
ReadAt(m, p, i) == IF SlotOf(m, p, i) = Raw THEN Indet ELSE SlotOf(m, p, i)

ReadFlag(m, p, i) ==
    LET m0 == Log(m, <<"read", p, i>>)
    IN IF ~InBlock(m, p, i) THEN Flag(m0, "out_of_block")
       ELSE IF SlotOf(m, p, i) = Raw THEN Flag(m0, "no_object")
       ELSE m0

\* T::operator= on the object at slot i
AssignAt(m, p, i, val) ==
    LET m0 == Log(m, <<"assign", p, i>>)
    IN IF ~InBlock(m, p, i) THEN Flag(m0, "out_of_block")
       ELSE IF SlotOf(m, p, i) = Raw THEN Put(Flag(m0, "no_object"), p, i, val)
       ELSE Put(m0, p, i, val)

\* std::move(*slot): the value leaves, the object stays alive, moved from
TakeFrom(m, p, i) ==
    LET m1 == ReadFlag(m, p, i)
    IN IF InBlock(m, p, i) THEN Put(m1, p, i, MovedFrom) ELSE m1

\* ------------------------------------------------------------ <memory>, <algorithm>
RECURSIVE DestroyN(_, _, _, _)
DestroyN(m, p, i, n) ==
    IF n <= 0 THEN m ELSE DestroyN(DestroyAt(m, p, i), p, i + 1, n - 1)

RECURSIVE UninitValueConstructN(_, _, _, _)
UninitValueConstructN(m, p, i, n) ==
    IF n <= 0 THEN m
    ELSE UninitValueConstructN(ConstructAt(m, p, i, DefaultValue), p, i + 1, n - 1)

\* std::uninitialized_copy_n; when the copy of element number failAt throws,
\* the copies already made are destroyed and the exception leaves
RECURSIVE UninitCopyStep(_, _, _, _, _, _, _, _)
UninitCopyStep(m, sp, si, n, dp, di, failAt, done) ==
    IF done >= n THEN [m |-> m, thrown |-> FALSE]
    ELSE IF done = failAt THEN [m |-> DestroyN(m, dp, di, done), thrown |-> TRUE]
    ELSE UninitCopyStep(
            ConstructAt(ReadFlag(m, sp, si + done), dp, di + done, ReadAt(m, sp, si + done)),
            sp, si, n, dp, di, failAt, done + 1)

UninitCopyN(m, sp, si, n, dp, di, failAt) == UninitCopyStep(m, sp, si, n, dp, di, failAt, 0)

RECURSIVE UninitMoveStep(_, _, _, _, _, _, _)
UninitMoveStep(m, sp, si, n, dp, di, done) ==
    IF done >= n THEN m
    ELSE UninitMoveStep(
            ConstructAt(TakeFrom(m, sp, si + done), dp, di + done, ReadAt(m, sp, si + done)),
            sp, si, n, dp, di, done + 1)

UninitMoveN(m, sp, si, n, dp, di) == UninitMoveStep(m, sp, si, n, dp, di, 0)

\* a mutant of MoveRange: the range is walked back to front
RECURSIVE MoveRangeMut(_, _, _, _, _)
MoveRangeMut(m, p, first, lst, dfirst) ==
    IF first >= lst THEN m
    ELSE MoveRangeMut(AssignAt(TakeFrom(m, p, lst - 1), p, dfirst + (lst - 1 - first),
                               ReadAt(m, p, lst - 1)),
                      p, first, lst - 1, dfirst)

\* std::move(first, last, d_first) within block p: front to back
RECURSIVE MoveRange(_, _, _, _, _)
MoveRange(m, p, first, lst, dfirst) ==
    IF first >= lst THEN m
    ELSE MoveRange(AssignAt(TakeFrom(m, p, first), p, dfirst, ReadAt(m, p, first)),
                   p, first + 1, lst, dfirst + 1)

\* a mutant of MoveBackward: the range is walked front to back
RECURSIVE MoveBackwardMut(_, _, _, _, _)
MoveBackwardMut(m, p, first, lst, dlast) ==
    IF first >= lst THEN m
    ELSE MoveBackwardMut(AssignAt(TakeFrom(m, p, first), p, dlast - (lst - first),
                                  ReadAt(m, p, first)),
                         p, first + 1, lst, dlast)

\* std::move_backward(first, last, d_last) within block p: back to front
RECURSIVE MoveBackward(_, _, _, _, _)
MoveBackward(m, p, first, lst, dlast) ==
    IF first >= lst THEN m
    ELSE MoveBackward(AssignAt(TakeFrom(m, p, lst - 1), p, dlast - 1, ReadAt(m, p, lst - 1)),
                      p, first, lst - 1, dlast - 1)

\* ------------------------------------------------------------ failure injection
\* what the environment makes fail in one call: nothing, the allocation
\* (std::bad_alloc), the constructor of the new element, or the copy
\* constructor of the element number `at` that the call copies
NoFail == [kind |-> "none", at |-> 0]

SlotsInUse(m) ==
    LET RECURSIVE Sum(_)
        Sum(S) == IF S = {} THEN 0
                  ELSE LET q == CHOOSE x \in S : TRUE
                       IN Cardinality(DOMAIN m.heap[q].slot) + Sum(S \ {q})
    IN Sum(Addrs)

AllocFails(m, n, f) ==
    f.kind = "alloc" \/ FreeAddrs(m) = {} \/ SlotsInUse(m) + n > slots

CopyFailAt(f) == IF f.kind = "copy" THEN f.at ELSE -1

\* ------------------------------------------------------------ Vector<T>
NoHandle == [blk |-> 0, off |-> 0]

Handle(p, i) == [blk |-> p, off |-> i]

NoVector == [alive |-> FALSE, data |-> NullMemory, size |-> 0]

EmptyVector == [alive |-> TRUE, data |-> NullMemory, size |-> 0]

Capacity(V) == V.data.capacity

Begin(V) == V.data.buffer

Out(m, V, exc, ret) == [m |-> m, V |-> V, exc |-> exc, ret |-> ret]

\* RawMemory::RawMemory(size_t): the block and its capacity
NewMemory(p, n) == [buffer |-> p, capacity |-> n]

\* RawMemory::RawMemory(RawMemory&&): the new object and what is left of
\* the source; std::move of a pointer or of a size_t copies it
RawMoveConstructOp(src) == [this |-> src, other |-> src]

\* RawMemory::operator=(RawMemory&&): the two objects after the assignment
RawMoveAssignOp(self, rhs) == [this |-> rhs, other |-> rhs]

\* RawMemory::Swap: the two objects after the exchange
RawSwap(x, y) == [this |-> y, other |-> x]

\* RawMemory::~RawMemory
RawDestroy(m, x) == Deallocate(m, x.buffer)

\* data_.Swap(new_data) as a step of the call: the vector now holds x
Adopt(m, x) == Log(m, <<"adopt", x.buffer>>)

\* a mutant of Relocate: the elements are moved even when T's move
\* constructor may throw
RelocateMut(m, sp, si, n, dp, di, failAt) ==
    IF failAt \in 0..(n - 1)
    THEN [m |-> DestroyN(UninitMoveN(m, sp, si, failAt, dp, di), dp, di, failAt),
          thrown |-> TRUE]
    ELSE [m |-> UninitMoveN(m, sp, si, n, dp, di), thrown |-> FALSE]

\* the relocation of n elements into raw storage: by move when T's move
\* constructor is noexcept, by copy otherwise
Relocate(m, sp, si, n, dp, di, failAt) ==
    IF nothrowMove THEN [m |-> UninitMoveN(m, sp, si, n, dp, di), thrown |-> FALSE]
    ELSE UninitCopyN(m, sp, si, n, dp, di, failAt)

\* a mutant of ReserveOp: a request for the capacity the vector already has
\* reallocates
ReserveOpMut(m, V, newCapacity, f) ==
    IF newCapacity < Capacity(V) THEN Out(m, V, "none", NoHandle)
    ELSE IF AllocFails(m, newCapacity, f) THEN Out(m, V, "alloc", NoHandle)
    ELSE LET a == Allocate(m, newCapacity)
             r == Relocate(a.m, Begin(V), 0, V.size, a.p, 0, CopyFailAt(f))
             nd == NewMemory(a.p, newCapacity)
         IN IF r.thrown THEN Out(RawDestroy(r.m, nd), V, "copy", NoHandle)
            ELSE LET sw == RawSwap(V.data, nd)
                 IN Out(RawDestroy(Adopt(DestroyN(r.m, Begin(V), 0, V.size), sw.this),
                                   sw.other),
                        [V EXCEPT !.data = sw.this], "none", NoHandle)

\* a mutant of ReserveOp: the new block is adopted before the old elements
\* are destroyed
ReserveOpSwapFirst(m, V, newCapacity, f) ==
    IF newCapacity <= Capacity(V) THEN Out(m, V, "none", NoHandle)
    ELSE IF AllocFails(m, newCapacity, f) THEN Out(m, V, "alloc", NoHandle)
    ELSE LET a == Allocate(m, newCapacity)
             r == Relocate(a.m, Begin(V), 0, V.size, a.p, 0, CopyFailAt(f))
             nd == NewMemory(a.p, newCapacity)
         IN IF r.thrown THEN Out(RawDestroy(r.m, nd), V, "copy", NoHandle)
            ELSE LET sw == RawSwap(V.data, nd)
                 IN Out(RawDestroy(DestroyN(Adopt(r.m, sw.this), Begin(V), 0, V.size),
                                   sw.other),
                        [V EXCEPT !.data = sw.this], "none", NoHandle)

\* Vector::Reserve
ReserveOp(m, V, newCapacity, f) ==
    IF newCapacity <= Capacity(V) THEN Out(m, V, "none", NoHandle)
    ELSE IF AllocFails(m, newCapacity, f) THEN Out(m, V, "alloc", NoHandle)
    ELSE LET a == Allocate(m, newCapacity)
             r == Relocate(a.m, Begin(V), 0, V.size, a.p, 0, CopyFailAt(f))
             nd == NewMemory(a.p, newCapacity)
         IN IF r.thrown THEN Out(RawDestroy(r.m, nd), V, "copy", NoHandle)
            ELSE LET sw == RawSwap(V.data, nd)
                 IN Out(RawDestroy(Adopt(DestroyN(r.m, Begin(V), 0, V.size), sw.this),
                                   sw.other),
                        [V EXCEPT !.data = sw.this], "none", NoHandle)

\* the argument a new element is constructed from: a value of the caller's,
\* or a reference to the element at slot i of block p
ByValue(x) == [val |-> x, at |-> NoHandle, ref |-> FALSE]

ByRef(p, i) == [val |-> DefaultValue, at |-> Handle(p, i), ref |-> TRUE]

\* the value the argument has when it is read
ArgValue(m, x) == IF x.ref THEN ReadAt(m, x.at.blk, x.at.off) ELSE x.val

\* new (slot) T(std::forward<Args>(args)...): the argument is read when the
\* element is constructed
ConstructFrom(m, p, i, x) ==
    ConstructAt(IF x.ref THEN ReadFlag(m, x.at.blk, x.at.off) ELSE m, p, i, ArgValue(m, x))

\* a mutant of GrownCapacity: a full vector grows by one slot
GrownCapacityMut(V) == V.size + 1

\* the capacity a full vector grows to
GrownCapacity(V) == IF V.size = 0 THEN 1 ELSE V.size * 2

\* Vector::EmplaceBack
EmplaceBackOp(m, V, x, f) ==
    IF V.size = Capacity(V)
    THEN IF AllocFails(m, GrownCapacity(V), f) THEN Out(m, V, "alloc", NoHandle)
         ELSE LET a == Allocate(m, GrownCapacity(V))
                  nd == NewMemory(a.p, GrownCapacity(V))
              IN IF f.kind = "ctor" THEN Out(RawDestroy(a.m, nd), V, "ctor", NoHandle)
                 ELSE LET m1 == ConstructFrom(a.m, a.p, V.size, x)
                          r == Relocate(m1, Begin(V), 0, V.size, a.p, 0, CopyFailAt(f))
                      IN IF r.thrown THEN Out(RawDestroy(r.m, nd), V, "copy", NoHandle)
                         ELSE LET sw == RawSwap(V.data, nd)
                              IN Out(RawDestroy(Adopt(DestroyN(r.m, Begin(V), 0, V.size),
                                                      sw.this), sw.other),
                                     [V EXCEPT !.data = sw.this, !.size = @ + 1],
                                     "none", Handle(sw.this.buffer, V.size))
    ELSE IF f.kind = "ctor" THEN Out(m, V, "ctor", NoHandle)
         ELSE Out(ConstructFrom(m, Begin(V), V.size, x), [V EXCEPT !.size = @ + 1],
                  "none", Handle(Begin(V), V.size))

\* Vector::PopBack
PopBackOp(m, V) ==
    Out(DestroyAt(m, Begin(V), V.size - 1), [V EXCEPT !.size = @ - 1], "none", NoHandle)

\* Vector::Emplace, the branch that reallocates (size_ == Capacity())
EmplaceRealloc(m, V, pos, x, f) ==
    IF AllocFails(m, GrownCapacity(V), f) THEN Out(m, V, "alloc", NoHandle)
    ELSE LET a == Allocate(m, GrownCapacity(V))
             nd == NewMemory(a.p, GrownCapacity(V))
         IN IF f.kind = "ctor" THEN Out(RawDestroy(a.m, nd), V, "ctor", NoHandle)
            ELSE LET m1 == ConstructFrom(a.m, a.p, pos, x)
                     r1 == Relocate(m1, Begin(V), 0, pos, a.p, 0, CopyFailAt(f))
                     r2 == IF r1.thrown THEN r1
                           ELSE Relocate(r1.m, Begin(V), pos, V.size - pos, a.p, pos + 1,
                                         CopyFailAt(f) - pos)
                 IN IF r2.thrown THEN Out(RawDestroy(r2.m, nd), V, "copy", NoHandle)
                    ELSE LET sw == RawSwap(V.data, nd)
                         IN Out(RawDestroy(Adopt(DestroyN(r2.m, Begin(V), 0, V.size),
                                                 sw.this), sw.other),
                                [V EXCEPT !.data = sw.this, !.size = @ + 1],
                                "none", Handle(a.p, pos))

\* a mutant of EmplaceInPlace: the argument is assigned to the slot after
\* the shift, without the temporary new_elem
EmplaceInPlaceMut(m, V, pos, x, f) ==
    IF f.kind = "ctor" THEN Out(m, V, "ctor", NoHandle)
    ELSE LET m1 == ConstructAt(TakeFrom(m, Begin(V), V.size - 1), Begin(V), V.size,
                               ReadAt(m, Begin(V), V.size - 1))
             m2 == MoveBackward(m1, Begin(V), pos, V.size - 1, V.size)
             m3 == AssignAt(IF x.ref THEN ReadFlag(m2, x.at.blk, x.at.off) ELSE m2,
                            Begin(V), pos, ArgValue(m2, x))
         IN Out(m3, [V EXCEPT !.size = @ + 1], "none", Handle(Begin(V), pos))

\* Vector::Emplace, the branch that shifts the tail within the block: the
\* temporary new_elem is constructed from the argument first
EmplaceInPlace(m, V, pos, x, f) ==
    IF f.kind = "ctor" THEN Out(m, V, "ctor", NoHandle)
    ELSE LET new_elem == ArgValue(m, x)
             m0 == IF x.ref THEN ReadFlag(m, x.at.blk, x.at.off) ELSE m
             m1 == ConstructAt(TakeFrom(m0, Begin(V), V.size - 1), Begin(V), V.size,
                               ReadAt(m0, Begin(V), V.size - 1))
             m2 == MoveBackward(m1, Begin(V), pos, V.size - 1, V.size)
             m3 == AssignAt(m2, Begin(V), pos, new_elem)
         IN Out(m3, [V EXCEPT !.size = @ + 1], "none", Handle(Begin(V), pos))

\* a mutant of EmplaceAtEnd: the end of the vector is not treated apart
EmplaceAtEndMut(m, V, pos, x, f) ==
    IF V.size = Capacity(V) THEN EmplaceRealloc(m, V, pos, x, f)
    ELSE EmplaceInPlace(m, V, pos, x, f)

\* Vector::Emplace, the branch for pos == cend(): EmplaceBack, then end() - 1
EmplaceAtEnd(m, V, pos, x, f) ==
    LET e == EmplaceBackOp(m, V, x, f)
    IN IF e.exc # "none" THEN e
       ELSE Out(e.m, e.V, "none", Handle(Begin(e.V), e.V.size - 1))

\* Vector::Emplace at index pos (the distance of the iterator from begin())
EmplaceOp(m, V, pos, x, f) ==
    IF pos = V.size THEN EmplaceAtEnd(m, V, pos, x, f)
    ELSE IF V.size = Capacity(V) THEN EmplaceRealloc(m, V, pos, x, f)
    ELSE EmplaceInPlace(m, V, pos, x, f)

\* a mutant of EraseOp: the last element is destroyed and the tail stays
EraseOpMut(m, V, pos) ==
    Out(DestroyN(m, Begin(V), V.size - 1, 1), [V EXCEPT !.size = @ - 1], "none",
        Handle(Begin(V), pos))

\* Vector::Erase at index pos
EraseOp(m, V, pos) ==
    LET m1 == MoveRange(m, Begin(V), pos + 1, V.size, pos)
        m2 == DestroyN(m1, Begin(V), V.size - 1, 1)
    IN Out(m2, [V EXCEPT !.size = @ - 1], "none", Handle(Begin(V), pos))

\* a mutant of ResizeOp: growing leaves the last new slot without an object
ResizeOpMut(m, V, newSize, f) ==
    IF newSize < V.size
    THEN Out(DestroyN(m, Begin(V), newSize - 1, V.size - newSize),
             [V EXCEPT !.size = newSize], "none", NoHandle)
    ELSE LET r == ReserveOp(m, V, newSize, f)
         IN IF r.exc # "none" THEN r
            ELSE Out(UninitValueConstructN(r.m, Begin(r.V), V.size, newSize - V.size - 1),
                     [r.V EXCEPT !.size = newSize], "none", NoHandle)

\* Vector::Resize
ResizeOp(m, V, newSize, f) ==
    IF newSize < V.size
    THEN Out(DestroyN(m, Begin(V), newSize - 1, V.size - newSize),
             [V EXCEPT !.size = newSize], "none", NoHandle)
    ELSE LET r == ReserveOp(m, V, newSize, f)
         IN IF r.exc # "none" THEN r
            ELSE Out(UninitValueConstructN(r.m, Begin(r.V), V.size, newSize - V.size),
                     [r.V EXCEPT !.size = newSize], "none", NoHandle)

\* Vector::Vector(size_t)
SizedConstructOp(m, n, f) ==
    IF n # 0 /\ AllocFails(m, n, f) THEN Out(m, NoVector, "alloc", NoHandle)
    ELSE LET a == Allocate(m, n)
         IN Out(UninitValueConstructN(a.m, a.p, 0, n),
                [alive |-> TRUE, data |-> NewMemory(a.p, n), size |-> n], "none", NoHandle)

\* Vector::Vector(const Vector&)
CopyConstructOp(m, W, f) ==
    IF W.size # 0 /\ AllocFails(m, W.size, f) THEN Out(m, NoVector, "alloc", NoHandle)
    ELSE LET a == Allocate(m, W.size)
             c == UninitCopyN(a.m, Begin(W), 0, W.size, a.p, 0, CopyFailAt(f))
             nd == NewMemory(a.p, W.size)
         IN IF c.thrown THEN Out(RawDestroy(c.m, nd), NoVector, "copy", NoHandle)
            ELSE Out(c.m, [alive |-> TRUE, data |-> nd, size |-> W.size], "none", NoHandle)

\* a mutant of MoveConstructOp: the size of the source is not reset
MoveConstructOpMut(W) ==
    LET sw == RawSwap(NullMemory, W.data)
    IN [V |-> [alive |-> TRUE, data |-> sw.this, size |-> W.size],
        W |-> [W EXCEPT !.data = sw.other]]

\* Vector::Vector(Vector&&): the new object and what is left of the source
MoveConstructOp(W) ==
    LET sw == RawSwap(NullMemory, W.data)
    IN [V |-> [alive |-> TRUE, data |-> sw.this, size |-> W.size],
        W |-> [W EXCEPT !.data = sw.other, !.size = 0]]

\* Vector::~Vector, then the destructor of its member data_
DestroyOp(m, V) == RawDestroy(DestroyN(m, Begin(V), 0, V.size), V.data)

\* a mutant of SwapOp: the buffers are exchanged and the sizes stay
SwapOpMut(V, W) ==
    LET sw == RawSwap(V.data, W.data)
    IN [V |-> [V EXCEPT !.data = sw.this], W |-> [W EXCEPT !.data = sw.other]]

\* Vector::Swap: the two objects after the exchange
SwapOp(V, W) ==
    LET sw == RawSwap(V.data, W.data)
    IN [V |-> [V EXCEPT !.data = sw.this, !.size = W.size],
        W |-> [W EXCEPT !.data = sw.other, !.size = V.size]]

\* the loop  for (i = 0; i != n; ++i) data_[i] = rhs[i]
RECURSIVE AssignPrefix(_, _, _, _, _)
AssignPrefix(m, dp, sp, i, n) ==
    IF i >= n THEN m
    ELSE AssignPrefix(AssignAt(ReadFlag(m, sp, i), dp, i, ReadAt(m, sp, i)), dp, sp, i + 1, n)

\* a mutant of CopyAssignOp: a that cannot hold rhs is emptied first, and
\* the copy is built afterwards
CopyAssignOpMut(m, V, W, f) ==
    IF W.size > Capacity(V)
    THEN LET m0 == DestroyOp(m, V)
             c == CopyConstructOp(m0, W, f)
         IN IF c.exc # "none" THEN Out(c.m, EmptyVector, c.exc, NoHandle)
            ELSE Out(c.m, c.V, "none", NoHandle)
    ELSE LET m1 == AssignPrefix(m, Begin(V), Begin(W), 0, V.size)
             c == UninitCopyN(m1, Begin(W), V.size, W.size - V.size, Begin(V), V.size,
                              CopyFailAt(f))
         IN IF c.thrown THEN Out(c.m, V, "copy", NoHandle)
            ELSE Out(c.m, [V EXCEPT !.size = W.size], "none", NoHandle)

\* Vector::operator=(const Vector&) with a right-hand side that is another object
CopyAssignOp(m, V, W, f) ==
    IF W.size > Capacity(V)
    THEN LET c == CopyConstructOp(m, W, f)
         IN IF c.exc # "none" THEN Out(c.m, V, c.exc, NoHandle)
            ELSE LET sw == SwapOp(V, c.V)
                 IN Out(DestroyOp(c.m, sw.W), sw.V, "none", NoHandle)
    ELSE IF W.size < V.size
    THEN Out(DestroyN(AssignPrefix(m, Begin(V), Begin(W), 0, W.size),
                      Begin(V), W.size - 1, V.size - W.size),
             [V EXCEPT !.size = W.size], "none", NoHandle)
    ELSE LET m1 == AssignPrefix(m, Begin(V), Begin(W), 0, V.size)
             c == UninitCopyN(m1, Begin(W), V.size, W.size - V.size, Begin(V), V.size,
                              CopyFailAt(f))
         IN IF c.thrown THEN Out(c.m, V, "copy", NoHandle)
            ELSE Out(c.m, [V EXCEPT !.size = W.size], "none", NoHandle)

\* Vector::operator[] used to write an element
SetAtOp(m, V, i, x) == AssignAt(m, Begin(V), i, x)

\* ------------------------------------------------------------ the program's state
\* a RawMemory object of the caller's
NoRaw == [alive |-> FALSE, mem |-> NullMemory]

\* no call is in progress: the caller is between two calls
Idle == [op |-> "idle", v |-> "a", w |-> "a", n |-> 0, x |-> 0, f |-> NoFail,
         exc |-> "none", ret |-> NoHandle, lost |-> {}, log |-> <<>>, pre |-> <<>>]

Start(n) ==
    /\ heap = [p \in Addrs |-> FreeBlock]
    /\ slots = n
    /\ vec = [v \in Vecs |-> NoVector]
    /\ raw = [r \in Raws |-> NoRaw]
    /\ ub = {}
    /\ call = Idle
    /\ nothrowMove \in BOOLEAN

\* the memory as a call finds it
M0 == Mem(heap, ub, {})

\* the representation of a vector, as every member function expects to find
\* it: size_ <= capacity, an object lives in each slot of [0, size_) and in
\* no slot of [size_, capacity)
Live(h, V, i) == h[Begin(V)].slot[i] # Raw

OwnsBlock(h, V) ==
    IF Begin(V) = 0 THEN Capacity(V) = 0
    ELSE /\ Begin(V) \in Addrs
         /\ h[Begin(V)].used
         /\ Capacity(V) > 0
         /\ DOMAIN h[Begin(V)].slot = 0..(Capacity(V) - 1)

WellFormed(h, V) ==
    /\ OwnsBlock(h, V)
    /\ V.size <= Capacity(V)
    /\ \A i \in 0..(Capacity(V) - 1) : Live(h, V, i) <=> i < V.size

\* a call starts when the previous one has returned; the model follows the
\* program up to the first call that performs undefined behaviour or leaves
\* a vector's representation broken
Running ==
    /\ call.op = "idle"
    /\ ub = {}
    /\ \A v \in Vecs : vec[v].alive => WellFormed(heap, vec[v])

\* what a call leaves behind: the memory, and the record of the call with
\* the state it started from
Done(m, op, v, w, n, x, f, exc, ret) ==
    /\ heap' = m.heap
    /\ ub' = m.ub
    /\ call' = [op |-> op, v |-> v, w |-> w, n |-> n, x |-> x, f |-> f, exc |-> exc,
                ret |-> ret,
                lost |-> m.lost, log |-> m.log,
                pre |-> [heap |-> heap, vec |-> vec, raw |-> raw]]
    /\ UNCHANGED <<slots, nothrowMove>>

\* control is back in the caller
Return ==
    /\ call.op # "idle"
    /\ call' = Idle
    /\ UNCHANGED <<heap, slots, vec, raw, ub, nothrowMove>>

\* the failures the environment can inject into a call that copies n elements
AllocFail == [kind |-> "alloc", at |-> 0]

CtorFail == [kind |-> "ctor", at |-> 0]

CopyFails(n) == {[kind |-> "copy", at |-> i] : i \in 0..(n - 1)}

RelocateFails(n) == IF nothrowMove THEN {} ELSE CopyFails(n)

\* ------------------------------------------------------------ construction, destruction
DefaultConstruct(v) ==
    /\ Running /\ ~vec[v].alive
    /\ vec' = [vec EXCEPT ![v] = EmptyVector]
    /\ UNCHANGED raw
    /\ Done(M0, "Vector()", v, v, 0, 0, NoFail, "none", NoHandle)

SizedConstruct(v, n, f) ==
    /\ Running /\ ~vec[v].alive
    /\ LET o == SizedConstructOp(M0, n, f)
       IN /\ vec' = [vec EXCEPT ![v] = o.V]
          /\ UNCHANGED raw
          /\ Done(o.m, "Vector(size)", v, v, n, 0, f, o.exc, NoHandle)

CopyConstruct(v, w, f) ==
    /\ Running /\ ~vec[v].alive /\ vec[w].alive
    /\ LET o == CopyConstructOp(M0, vec[w], f)
       IN /\ vec' = [vec EXCEPT ![v] = o.V]
          /\ UNCHANGED raw
          /\ Done(o.m, "Vector(copy)", v, w, 0, 0, f, o.exc, NoHandle)

MoveConstruct(v, w) ==
    /\ Running /\ ~vec[v].alive /\ vec[w].alive
    /\ LET o == MoveConstructOp(vec[w])
       IN /\ vec' = [vec EXCEPT ![v] = o.V, ![w] = o.W]
          /\ UNCHANGED raw
          /\ Done(M0, "Vector(move)", v, w, 0, 0, NoFail, "none", NoHandle)

Destroy(v) ==
    /\ Running /\ vec[v].alive
    /\ vec' = [vec EXCEPT ![v] = NoVector]
    /\ UNCHANGED raw
    /\ Done(DestroyOp(M0, vec[v]), "~Vector", v, v, 0, 0, NoFail, "none", NoHandle)

\* ------------------------------------------------------------ assignment, swap
CopyAssign(v, w, f) ==
    /\ Running /\ vec[v].alive /\ vec[w].alive
    /\ LET o == IF v = w THEN Out(M0, vec[v], "none", NoHandle)
                ELSE CopyAssignOp(M0, vec[v], vec[w], f)
       IN /\ vec' = [vec EXCEPT ![v] = o.V]
          /\ UNCHANGED raw
          /\ Done(o.m, "operator=(copy)", v, w, 0, 0, f, o.exc, NoHandle)

MoveAssign(v, w) ==
    /\ Running /\ vec[v].alive /\ vec[w].alive
    /\ LET o == SwapOp(vec[v], vec[w])
       IN /\ vec' = [vec EXCEPT ![v] = o.V, ![w] = o.W]
          /\ UNCHANGED raw
          /\ Done(M0, "operator=(move)", v, w, 0, 0, NoFail, "none", NoHandle)

Swap(v, w) ==
    /\ Running /\ vec[v].alive /\ vec[w].alive
    /\ LET o == SwapOp(vec[v], vec[w])
       IN /\ vec' = [vec EXCEPT ![v] = o.V, ![w] = o.W]
          /\ UNCHANGED raw
          /\ Done(M0, "Swap", v, w, 0, 0, NoFail, "none", NoHandle)

\* ------------------------------------------------------------ capacity and size
Reserve(v, k, f) ==
    /\ Running /\ vec[v].alive
    /\ LET o == ReserveOp(M0, vec[v], k, f)
       IN /\ vec' = [vec EXCEPT ![v] = o.V]
          /\ UNCHANGED raw
          /\ Done(o.m, "Reserve", v, v, k, 0, f, o.exc, NoHandle)

Resize(v, n, f) ==
    /\ Running /\ vec[v].alive
    /\ LET o == ResizeOp(M0, vec[v], n, f)
       IN /\ vec' = [vec EXCEPT ![v] = o.V]
          /\ UNCHANGED raw
          /\ Done(o.m, "Resize", v, v, n, 0, f, o.exc, NoHandle)

\* ------------------------------------------------------------ elements
\* PushBack forwards to EmplaceBack
PushBack(v, x, f) ==
    /\ Running /\ vec[v].alive
    /\ LET o == EmplaceBackOp(M0, vec[v], x, f)
       IN /\ vec' = [vec EXCEPT ![v] = o.V]
          /\ UNCHANGED raw
          /\ Done(o.m, "PushBack", v, v, vec[v].size, x, f, o.exc, o.ret)

\* precondition: the vector is not empty
PopBack(v) ==
    /\ Running /\ vec[v].alive /\ vec[v].size > 0
    /\ LET o == PopBackOp(M0, vec[v])
       IN /\ vec' = [vec EXCEPT ![v] = o.V]
          /\ UNCHANGED raw
          /\ Done(o.m, "PopBack", v, v, 0, 0, NoFail, "none", NoHandle)

\* Insert forwards to Emplace; precondition: begin() <= pos <= end()
Emplace(v, pos, x, f) ==
    /\ Running /\ vec[v].alive /\ pos \in 0..vec[v].size
    /\ LET o == EmplaceOp(M0, vec[v], pos, x, f)
       IN /\ vec' = [vec EXCEPT ![v] = o.V]
          /\ UNCHANGED raw
          /\ Done(o.m, "Emplace", v, v, pos, x, f, o.exc, o.ret)

\* precondition: begin() <= pos < end()
Erase(v, pos) ==
    /\ Running /\ vec[v].alive /\ pos \in 0..(vec[v].size - 1)
    /\ LET o == EraseOp(M0, vec[v], pos)
       IN /\ vec' = [vec EXCEPT ![v] = o.V]
          /\ UNCHANGED raw
          /\ Done(o.m, "Erase", v, v, pos, 0, NoFail, "none", o.ret)

\* v[i] = x; precondition: i < size
SetAt(v, i, x) ==
    /\ Running /\ vec[v].alive /\ i \in 0..(vec[v].size - 1)
    /\ UNCHANGED <<vec, raw>>
    /\ Done(SetAtOp(M0, vec[v], i, x), "operator[]", v, v, i, x, NoFail, "none",
            Handle(Begin(vec[v]), i))

\* ------------------------------------------------------------ RawMemory objects
RunningRaw == call.op = "idle" /\ ub = {}

RawConstruct(r, n, f) ==
    /\ RunningRaw /\ ~raw[r].alive
    /\ LET fails == n # 0 /\ AllocFails(M0, n, f)
           a == Allocate(M0, n)
       IN /\ raw' = IF fails THEN raw
                    ELSE [raw EXCEPT ![r] = [alive |-> TRUE, mem |-> NewMemory(a.p, n)]]
          /\ UNCHANGED vec
          /\ Done(IF fails THEN M0 ELSE a.m, "RawMemory(capacity)", r, r, n, 0, f,
                  IF fails THEN "alloc" ELSE "none", NoHandle)

RawMoveConstruct(r, s) ==
    /\ RunningRaw /\ ~raw[r].alive /\ raw[s].alive
    /\ LET o == RawMoveConstructOp(raw[s].mem)
       IN /\ raw' = [raw EXCEPT ![r] = [alive |-> TRUE, mem |-> o.this], ![s].mem = o.other]
          /\ UNCHANGED vec
          /\ Done(M0, "RawMemory(move)", r, s, 0, 0, NoFail, "none", NoHandle)

RawMoveAssign(r, s) ==
    /\ RunningRaw /\ raw[r].alive /\ raw[s].alive
    /\ LET o == RawMoveAssignOp(raw[r].mem, raw[s].mem)
       IN /\ raw' = [raw EXCEPT ![s].mem = o.other, ![r].mem = o.this]
          /\ UNCHANGED vec
          /\ Done(M0, "RawMemory::operator=(move)", r, s, 0, 0, NoFail, "none", NoHandle)

RawSwapCall(r, s) ==
    /\ RunningRaw /\ raw[r].alive /\ raw[s].alive
    /\ LET o == RawSwap(raw[r].mem, raw[s].mem)
       IN /\ raw' = IF r = s THEN raw ELSE [raw EXCEPT ![r].mem = o.this, ![s].mem = o.other]
          /\ UNCHANGED vec
          /\ Done(M0, "RawMemory::Swap", r, s, 0, 0, NoFail, "none", NoHandle)

RawDestroyCall(r) ==
    /\ RunningRaw /\ raw[r].alive
    /\ raw' = [raw EXCEPT ![r] = NoRaw]
    /\ UNCHANGED vec
    /\ Done(RawDestroy(M0, raw[r].mem), "~RawMemory", r, r, 0, 0, NoFail, "none", NoHandle)

\* ------------------------------------------------------------ specifications
\* the calls on one vector
OneVector(v, maxReq) ==
    \/ DefaultConstruct(v)
    \/ \E n \in 0..maxReq, f \in {NoFail, AllocFail} : SizedConstruct(v, n, f)
    \/ Destroy(v)
    \/ \E k \in 0..maxReq, f \in {NoFail, AllocFail} \cup RelocateFails(vec[v].size) :
           Reserve(v, k, f)
    \/ \E n \in 0..maxReq, f \in {NoFail, AllocFail} \cup RelocateFails(vec[v].size) :
           Resize(v, n, f)
    \/ \E x \in Values, f \in {NoFail, AllocFail, CtorFail} \cup RelocateFails(vec[v].size) :
           PushBack(v, ByValue(x), f)
    \/ PopBack(v)
    \/ \E pos \in 0..vec[v].size, x \in Values,
          f \in {NoFail, AllocFail, CtorFail} \cup RelocateFails(vec[v].size) :
           Emplace(v, pos, ByValue(x), f)
    \/ \E pos \in 0..(vec[v].size - 1) : Erase(v, pos)
    \/ \E i \in 0..(vec[v].size - 1), x \in Values : SetAt(v, i, x)

\* the calls that take a second vector (which may be the same object, except
\* for the constructors)
TwoVectors(v, w) ==
    \/ \E f \in {NoFail, AllocFail} \cup CopyFails(vec[w].size) : CopyConstruct(v, w, f)
    \/ MoveConstruct(v, w)
    \/ \E f \in {NoFail, AllocFail} \cup CopyFails(vec[w].size) : CopyAssign(v, w, f)
    \/ MoveAssign(v, w)
    \/ Swap(v, w)

\* a program with two vectors
Next ==
    \/ Return
    \/ \E v \in Vecs : OneVector(v, PairCap)
    \/ \E v \in Vecs, w \in Vecs : TwoVectors(v, w)

Init == Start(PairSlots)

Spec == Init /\ [][Next]_vars

\* v.PushBack(v[i]) and v.Insert(pos, v[i]): the argument is a reference to
\* an element of the vector itself
SelfReference(v) ==
    \/ \E i \in 0..(vec[v].size - 1) : PushBack(v, ByRef(Begin(vec[v]), i), NoFail)
    \/ \E pos \in 0..vec[v].size, i \in 0..(vec[v].size - 1) :
           Emplace(v, pos, ByRef(Begin(vec[v]), i), NoFail)

\* a program with one vector
NextSingle ==
    \/ Return
    \/ OneVector("a", MaxCap)
    \/ SelfReference("a")
    \/ \E f \in {NoFail} : CopyAssign("a", "a", f)
    \/ MoveAssign("a", "a")
    \/ Swap("a", "a")

InitSingle == Start(HeapSlots)

SpecSingle == InitSingle /\ [][NextSingle]_vars

\* a program that only appends to one vector
NextAppend ==
    \/ Return
    \/ DefaultConstruct("a")
    \/ \E x \in Values, f \in {NoFail, AllocFail, CtorFail} \cup RelocateFails(vec["a"].size) :
           PushBack("a", ByValue(x), f)

SpecAppend == InitSingle /\ [][NextAppend]_vars

\* a program that builds two vectors and copies, moves, assigns and swaps them
NextPair ==
    \/ Return
    \/ \E v \in Vecs, n \in 0..PairCap : SizedConstruct(v, n, NoFail)
    \/ \E v \in Vecs, x \in Values : PushBack(v, ByValue(x), NoFail)
    \/ \E v \in Vecs : PopBack(v)
    \/ \E v \in Vecs : Destroy(v)
    \/ \E v \in Vecs, w \in Vecs :
           \E f \in {NoFail, AllocFail} \cup CopyFails(vec[w].size) : CopyConstruct(v, w, f)
    \/ \E v \in Vecs, w \in Vecs : MoveConstruct(v, w)
    \/ \E v \in Vecs, w \in Vecs :
           \E f \in {NoFail, AllocFail} \cup CopyFails(vec[w].size) : CopyAssign(v, w, f)
    \/ \E v \in Vecs, w \in Vecs : MoveAssign(v, w)

SpecPair == Init /\ [][NextPair]_vars

\* a program with two RawMemory objects
NextRaw ==
    \/ Return
    \/ \E r \in Raws, n \in 0..MaxCap, f \in {NoFail, AllocFail} : RawConstruct(r, n, f)
    \/ \E r \in Raws, s \in Raws : RawMoveConstruct(r, s)
    \/ \E r \in Raws, s \in Raws : RawMoveAssign(r, s)
    \/ \E r \in Raws, s \in Raws : RawSwapCall(r, s)
    \/ \E r \in Raws : RawDestroyCall(r)

SpecRaw == InitSingle /\ [][NextRaw]_vars

\* ------------------------------------------------------------ reading a state
\* the elements of a vector, in order
Elems(h, V) == [i \in 1..V.size |-> h[Begin(V)].slot[i - 1]]

\* the vector a call was made on, before and after; its second operand
PreV == call.pre.vec[call.v]

PostV == vec[call.v]

PreW == call.pre.vec[call.w]

PostW == vec[call.w]

Max(i, j) == IF i >= j THEN i ELSE j

\* <<s[1..p], x, s[p+1..]>>
InsertedAt(s, p, x) == SubSeq(s, 1, p) \o <<x>> \o SubSeq(s, p + 1, Len(s))

\* s without its element number p + 1
RemovedAt(s, p) == SubSeq(s, 1, p) \o SubSeq(s, p + 2, Len(s))

\* the call reallocates: Reserve beyond the capacity, or an insertion into a
\* full vector
Reallocating ==
    \/ call.op = "Reserve" /\ call.n > Capacity(PreV)
    \/ call.op \in {"PushBack", "Emplace"} /\ PreV.size = Capacity(PreV)

\* ------------------------------------------------------------ claims
\* C1: after every public operation called within its precondition, each
\* vector has size <= capacity, a live element in every slot of [0, size)
\* and no live element in any slot of [size, capacity).
C1_Representation == \A v \in Vecs : vec[v].alive => WellFormed(heap, vec[v])

\* C2: Resize(newSize) with newSize < size destroys exactly the elements of
\* [newSize, size): the elements below newSize keep their values, no slot
\* outside the block is touched, the block and the capacity stay and size
\* becomes newSize.
C2_ResizeShrink ==
    (call.op = "Resize" /\ call.n < PreV.size) =>
        /\ ub = {}
        /\ PostV.size = call.n
        /\ PostV.data = PreV.data
        /\ \A i \in 0..(Capacity(PreV) - 1) :
               heap[Begin(PreV)].slot[i] =
                   IF i < call.n THEN call.pre.heap[Begin(PreV)].slot[i] ELSE Raw

\* C3: a = b with b.size <= a.capacity keeps a's block and capacity and
\* leaves a with b's size and elements, b unchanged, and no element of a
\* alive at or beyond b.size.
C3_CopyAssignReuse ==
    (/\ call.op = "operator=(copy)" /\ call.v # call.w /\ call.exc = "none"
     /\ PreW.size <= Capacity(PreV)) =>
        /\ ub = {}
        /\ PostV.data = PreV.data
        /\ PostV.size = PreW.size
        /\ Elems(heap, PostV) = Elems(call.pre.heap, PreW)
        /\ PostW = PreW
        /\ Elems(heap, PostW) = Elems(call.pre.heap, PreW)
        /\ \A i \in 0..(Capacity(PreV) - 1) :
               (heap[Begin(PreV)].slot[i] # Raw) <=> i < PreW.size

\* the capacity that appending alone gives a vector of n elements: 0, then
\* 1, 2, 4, 8, ...
RECURSIVE DoubledTo(_, _)
DoubledTo(c, n) == IF c >= n THEN c ELSE DoubledTo(Max(1, 2 * c), n)

\* C4: in a program that only appends to an initially empty vector, every
\* successful PushBack adds one to the size, the capacity changes only in a
\* PushBack made with size = capacity, where it becomes max(1, 2 * capacity),
\* and so the capacity is always the first of 0, 1, 2, 4, ... that holds
\* the elements.
C4_AppendGrowth ==
    /\ vec["a"].alive =>
           /\ vec["a"].size <= Capacity(vec["a"])
           /\ Capacity(vec["a"]) = DoubledTo(0, vec["a"].size)
    /\ call.op = "Vector()" => PostV.size = 0 /\ Capacity(PostV) = 0
    /\ call.op = "PushBack" =>
           IF call.exc # "none" THEN PostV = PreV
           ELSE /\ PostV.size = PreV.size + 1
                /\ Capacity(PostV) = IF PreV.size = Capacity(PreV)
                                     THEN Max(1, 2 * Capacity(PreV))
                                     ELSE Capacity(PreV)

C4_Witness ==
    /\ call.op = "PushBack" /\ call.exc = "none"
    /\ PreV.size = 2 /\ Capacity(PreV) = 2 /\ Capacity(PostV) = 4

\* C5: when Reserve, PushBack or Emplace throws while reallocating (the
\* allocation fails, the constructor of the new element throws, or a copy
\* throws during the relocation), the vector, every element and the free
\* store are as before the call: the new block has been released.
C5_StrongGuarantee ==
    (call.op \in {"Reserve", "PushBack", "Emplace"} /\ Reallocating /\ call.exc # "none") =>
        /\ ub = {}
        /\ vec = call.pre.vec
        /\ heap = call.pre.heap

C5_Witness ==
    /\ call.op = "Emplace" /\ Reallocating /\ call.exc = "copy"
    /\ call.f.at >= 1 /\ call.n >= 1 /\ call.n < PreV.size

\* C6: Reserve(k) never changes the size or the elements; with k <= capacity
\* it changes nothing at all, and otherwise, when it succeeds, the capacity
\* is exactly k.
C6_Reserve ==
    call.op = "Reserve" =>
        /\ ub = {}
        /\ PostV.size = PreV.size
        /\ Elems(heap, PostV) = Elems(call.pre.heap, PreV)
        /\ call.n <= Capacity(PreV) =>
               call.exc = "none" /\ vec = call.pre.vec /\ heap = call.pre.heap
        /\ (call.n > Capacity(PreV) /\ call.exc = "none") => Capacity(PostV) = call.n

C6_Witness ==
    /\ call.op = "Reserve" /\ call.exc = "none"
    /\ PreV.size >= 2 /\ call.n > Capacity(PreV)

\* C7: moving a RawMemory (by construction or by assignment from another
\* object) gives the destination the block and the capacity of the source
\* and leaves the source empty, so that once both objects are destroyed no
\* block has been released twice and none is left allocated.
C7_RawMove ==
    /\ (call.op \in {"RawMemory(move)", "RawMemory::operator=(move)"} /\ call.v # call.w) =>
           /\ raw[call.v].mem = call.pre.raw[call.w].mem
           /\ raw[call.w].mem = NullMemory
    /\ (\A r \in Raws : ~raw[r].alive) =>
           /\ "double_free" \notin ub
           /\ \A p \in Addrs : ~heap[p].used

\* C8: Emplace(p, x) with 0 <= p <= size gives old[0..p) ++ [x] ++
\* old[p..size), one element more, and returns the position of index p in
\* the vector's current block, with or without reallocation.
C8_Emplace ==
    (call.op = "Emplace" /\ call.exc = "none") =>
        /\ ub = {}
        /\ WellFormed(heap, PostV)
        /\ PostV.size = PreV.size + 1
        /\ Elems(heap, PostV) = InsertedAt(Elems(call.pre.heap, PreV), call.n,
                                           ArgValue(Mem(call.pre.heap, {}, {}), call.x))
        /\ call.ret = Handle(Begin(PostV), call.n)
        /\ Capacity(PostV) = IF PreV.size = Capacity(PreV)
                             THEN Max(1, 2 * Capacity(PreV)) ELSE Capacity(PreV)

C8_Witness ==
    /\ call.op = "Emplace" /\ call.exc = "none"
    /\ PreV.size = 3 /\ Capacity(PreV) = 4 /\ call.n = 1
    /\ Elems(call.pre.heap, PreV)[2] # Elems(call.pre.heap, PreV)[3]

\* C9: Erase(p) with 0 <= p < size gives old[0..p) ++ old[p+1..size), one
\* element less, the same block and capacity, and returns the position of
\* index p, which is end() exactly when the last element was removed.
C9_Erase ==
    call.op = "Erase" =>
        /\ ub = {}
        /\ WellFormed(heap, PostV)
        /\ PostV.size = PreV.size - 1
        /\ PostV.data = PreV.data
        /\ Elems(heap, PostV) = RemovedAt(Elems(call.pre.heap, PreV), call.n)
        /\ call.ret = Handle(Begin(PostV), call.n)
        /\ (call.ret = Handle(Begin(PostV), PostV.size)) <=> (call.n = PreV.size - 1)

C9_Witness ==
    /\ call.op = "Erase" /\ call.n = 0 /\ PreV.size = 3
    /\ Elems(call.pre.heap, PreV)[2] # Elems(call.pre.heap, PreV)[3]

\* C10: Emplace(end(), x) leaves the vector, the free store and the caller
\* with what PushBack(x) leaves in the same state under the same failures,
\* and returns the position of the element PushBack returns: the new last.
C10_EmplaceAtEnd ==
    (call.op = "Emplace" /\ call.n = PreV.size) =>
        LET b == EmplaceBackOp(Mem(call.pre.heap, {}, {}), PreV, call.x, call.f)
        IN /\ heap = b.m.heap
           /\ ub = b.m.ub
           /\ call.lost = b.m.lost
           /\ PostV = b.V
           /\ call.exc = b.exc
           /\ call.ret = b.ret
           /\ call.exc = "none" => call.ret = Handle(Begin(PostV), PostV.size - 1)

C10_Witness ==
    /\ call.op = "Emplace" /\ call.exc = "none"
    /\ call.n = PreV.size /\ PreV.size = 2 /\ Capacity(PreV) = 3

\* C11: Insert(p, x) followed by Erase at the position Insert returned gives
\* back the elements the vector had before the insertion, in order, and its
\* size, whether or not the insertion reallocated; the returned position is
\* one Erase may be called with.
C11_InsertErase ==
    (call.op = "Emplace" /\ call.exc = "none") =>
        /\ call.ret.blk = Begin(PostV)
        /\ call.ret.off \in 0..(PostV.size - 1)
        /\ LET e == EraseOp(Mem(heap, ub, {}), PostV, call.ret.off)
           IN /\ e.m.ub = {}
              /\ e.V.size = PreV.size
              /\ WellFormed(e.m.heap, e.V)
              /\ Elems(e.m.heap, e.V) = Elems(call.pre.heap, PreV)

C11_Witness ==
    /\ call.op = "Emplace" /\ call.exc = "none" /\ Reallocating
    /\ PreV.size = 2 /\ call.n = 1
    /\ Elems(call.pre.heap, PreV)[1] # Elems(call.pre.heap, PreV)[2]

\* C12: move-constructing d from s leaves s alive with size 0 and no block,
\* and d with the block, capacity, size and elements s had; the free store is
\* untouched: no element is constructed, copied or destroyed and no block is
\* allocated or released.
C12_MoveConstruct ==
    call.op = "Vector(move)" =>
        /\ ub = {} /\ call.lost = {}
        /\ PostW.alive /\ PostW.size = 0 /\ PostW.data = NullMemory
        /\ PostV.alive /\ PostV.data = PreW.data /\ PostV.size = PreW.size
        /\ heap = call.pre.heap
        /\ Elems(heap, PostV) = Elems(call.pre.heap, PreW)
        /\ WellFormed(heap, PostV) /\ WellFormed(heap, PostW)

C12_Witness ==
    /\ call.op = "Vector(move)"
    /\ PreW.size = 2 /\ PostV.size = 2
    /\ Elems(call.pre.heap, PreW)[1] # Elems(call.pre.heap, PreW)[2]

\* C13: a = std::move(b) exchanges the two vectors: a has the block,
\* capacity, size and elements b had, b has those a had (b is not emptied),
\* the free store is untouched (no element destroyed, no block released),
\* and a = std::move(a) leaves a as it was.
C13_MoveAssign ==
    call.op = "operator=(move)" =>
        /\ ub = {} /\ call.lost = {}
        /\ heap = call.pre.heap
        /\ PostV = PreW
        /\ PostW = PreV
        /\ Elems(heap, PostV) = Elems(call.pre.heap, PreW)
        /\ Elems(heap, PostW) = Elems(call.pre.heap, PreV)
        /\ call.v = call.w => vec = call.pre.vec

C13_Witness ==
    /\ call.op = "operator=(move)" /\ call.v # call.w
    /\ PreV.size = 1 /\ PreW.size = 2 /\ PostW.size = 1
    /\ Elems(call.pre.heap, PreW)[1] # Elems(call.pre.heap, PreW)[2]

\* C14: a = b with b.size > a.capacity: if building the copy fails (the
\* allocation, or the copy of an element), a, its elements and the free
\* store are as before; if it succeeds, a holds b's elements in order with
\* size = capacity = b.size in a new block, a's former elements have been
\* destroyed and its former block released, once; b is unchanged either way.
C14_CopyAssignStrong ==
    (call.op = "operator=(copy)" /\ call.v # call.w /\ PreW.size > Capacity(PreV)) =>
        /\ ub = {} /\ call.lost = {}
        /\ PostW = PreW
        /\ Elems(heap, PostW) = Elems(call.pre.heap, PreW)
        /\ IF call.exc # "none"
           THEN vec = call.pre.vec /\ heap = call.pre.heap
           ELSE /\ PostV.size = PreW.size
                /\ Capacity(PostV) = PreW.size
                /\ WellFormed(heap, PostV)
                /\ Elems(heap, PostV) = Elems(call.pre.heap, PreW)
                /\ Begin(PostV) \notin {Begin(PreV), Begin(PreW)}
                /\ Begin(PreV) # 0 => ~heap[Begin(PreV)].used
                /\ \A p \in Addrs \ {Begin(PreV), Begin(PostV)} : heap[p] = call.pre.heap[p]

C14_Witness ==
    /\ call.op = "operator=(copy)" /\ call.v # call.w /\ call.exc = "copy"
    /\ PreV.size = 1 /\ Capacity(PreV) = 1 /\ PreW.size = 2 /\ call.f.at = 1

\* the calls that change one vector: element writes, PushBack, Erase,
\* Resize, destruction
Mutations == {"operator[]", "PushBack", "Erase", "Resize", "~Vector"}

\* the vectors other than the one the call was made on that were alive
Others == {u \in Vecs \ {call.v} : call.pre.vec[u].alive}

\* C15: copy-constructing c from s gives c the size of s, a capacity equal
\* to that size, equal elements and a block of its own, and s stays as it
\* was; afterwards every element write, PushBack, Erase, Resize or
\* destruction of one vector is a defined call that leaves the size, the
\* block and the elements of the other unchanged.
C15_CopyIndependence ==
    /\ (call.op = "Vector(copy)" /\ call.exc = "none") =>
           /\ ub = {}
           /\ PostV.size = PreW.size
           /\ Capacity(PostV) = PreW.size
           /\ Elems(heap, PostV) = Elems(call.pre.heap, PreW)
           /\ WellFormed(heap, PostV)
           /\ PostW = PreW
           /\ Elems(heap, PostW) = Elems(call.pre.heap, PreW)
           /\ PreW.size > 0 => Begin(PostV) # Begin(PostW)
    /\ (call.op \in Mutations /\ Others # {}) =>
           /\ ub = {}
           /\ \A u \in Others :
                  /\ vec[u] = call.pre.vec[u]
                  /\ WellFormed(heap, vec[u])
                  /\ Elems(heap, vec[u]) = Elems(call.pre.heap, call.pre.vec[u])

\* C16: Resize(newSize) with newSize >= size keeps the elements of
\* [0, size) in value and order, value-initialises exactly the slots of
\* [size, newSize), sets the size to newSize and leaves the capacity at
\* max(old capacity, newSize).
C16_ResizeGrow ==
    (call.op = "Resize" /\ call.n >= PreV.size /\ call.exc = "none") =>
        /\ ub = {} /\ call.lost = {}
        /\ PostV.size = call.n
        /\ Capacity(PostV) = Max(Capacity(PreV), call.n)
        /\ WellFormed(heap, PostV)
        /\ Elems(heap, PostV) =
               Elems(call.pre.heap, PreV) \o [i \in 1..(call.n - PreV.size) |-> DefaultValue]
        /\ call.n <= Capacity(PreV) => PostV.data = PreV.data

C16_Witness ==
    /\ call.op = "Resize" /\ call.exc = "none"
    /\ PreV.size = 2 /\ Capacity(PreV) < 4 /\ call.n = 4
    /\ Elems(call.pre.heap, PreV) = <<1, 1>>

\* the steps of a reallocation from block o, holding n elements, into block
\* b, in the order the claim gives them; the new element, if the call
\* inserts one, goes to index at and the old elements from at on go one up
RECURSIVE Transfers(_, _, _, _, _)
Transfers(o, b, i, n, at) ==
    IF i >= n THEN <<>>
    ELSE <<<<"read", o, i>>, <<"construct", b, IF i < at THEN i ELSE i + 1>>>>
         \o Transfers(o, b, i + 1, n, at)

ReallocationSteps(o, b, n, inserts, at) ==
    <<<<"allocate", b>>>>
    \o (IF inserts /\ call.x.ref THEN <<<<"read", call.x.at.blk, call.x.at.off>>>> ELSE <<>>)
    \o (IF inserts THEN <<<<"construct", b, at>>>> ELSE <<>>)
    \o Transfers(o, b, 0, n, IF inserts THEN at ELSE n)
    \o [i \in 1..n |-> <<"destroy", o, i - 1>>]
    \o <<<<"adopt", b>>>>
    \o (IF o # 0 THEN <<<<"release", o>>>> ELSE <<>>)

\* C17: a Reserve, PushBack or Emplace that reallocates takes its steps in
\* this order: allocate the new block, construct the new element (if any)
\* in it, transfer every old element into it, destroy the old elements,
\* adopt the new block, release the old block; so no old element is
\* destroyed before all have been transferred, and on return the vector
\* owns the new block alone and the old block has been released once.
C17_ReallocationOrder ==
    (call.op \in {"Reserve", "PushBack", "Emplace"} /\ Reallocating /\ call.exc = "none") =>
        /\ ub = {}
        /\ call.log = ReallocationSteps(Begin(PreV), Begin(PostV), PreV.size,
                                        call.op # "Reserve", call.n)
        /\ \A i, j \in 1..Len(call.log) :
               (call.log[i][1] = "destroy" /\ call.log[j][1] \in {"read", "construct"})
                   => j < i
        /\ Begin(PostV) # Begin(PreV)
        /\ \A p \in Addrs : heap[p].used <=> p = Begin(PostV)
        /\ Cardinality({i \in 1..Len(call.log) : call.log[i] = <<"release", Begin(PreV)>>}) =
               IF Begin(PreV) = 0 THEN 0 ELSE 1

C17_Witness ==
    /\ call.op = "Emplace" /\ Reallocating /\ call.exc = "none"
    /\ PreV.size = 2 /\ call.n = 1 /\ ~nothrowMove

\* C18: when a copy throws during the relocation of a reallocating PushBack
\* or Emplace, every object the call constructed in the new block (the new
\* element among them) is destroyed before the block is released: no
\* object is lost with released storage.
C18_NoObjectInReleasedBlock ==
    (call.op \in {"PushBack", "Emplace"} /\ Reallocating /\ call.exc = "copy") =>
        /\ call.lost = {}
        /\ \A i \in 1..Len(call.log) :
               call.log[i][1] = "construct" =>
                   \E j \in (i + 1)..Len(call.log) :
                       call.log[j] = <<"destroy", call.log[i][2], call.log[i][3]>>

\* the steps of the call before its first step of the given kinds
Before(kinds) ==
    LET hits == {i \in 1..Len(call.log) : call.log[i][1] \in kinds}
    IN IF hits = {} THEN call.log
       ELSE SubSeq(call.log, 1, (CHOOSE i \in hits : \A j \in hits : i <= j) - 1)

\* C19: v.PushBack(v[i]) and v.Insert(pos, v[i]) insert the value v[i] held
\* before the call and leave the elements the vector had with their values
\* and order, when the call reallocates and when it shifts in place: the
\* argument is read before any element is moved, assigned or destroyed.
C19_SelfReference ==
    (call.op \in {"PushBack", "Emplace"} /\ call.x.ref /\ call.exc = "none") =>
        /\ ub = {} /\ call.lost = {}
        /\ WellFormed(heap, PostV)
        /\ Elems(heap, PostV) =
               InsertedAt(Elems(call.pre.heap, PreV), call.n,
                          Elems(call.pre.heap, PreV)[call.x.at.off + 1])
        /\ Before({"read"}) \in {<<>>, <<<<"allocate", Begin(PostV)>>>>}
        /\ call.log[Len(Before({"read"})) + 1] = <<"read", call.x.at.blk, call.x.at.off>>

C19_Witness ==
    /\ call.op = "Emplace" /\ call.x.ref /\ call.exc = "none"
    /\ ~Reallocating /\ PreV.size = 3 /\ call.n = 0 /\ call.x.at.off = 1
    /\ Elems(call.pre.heap, PreV) = <<0, 1, 0>>

====
